---- MODULE Spec2Model ----
(***************************************************************************)
(* Model of the billing risk engine of src/BillingAnalysis.py:             *)
(*   Invoice_Analysis.get_overdue_bucket                                   *)
(*   Invoice_Analysis.calculate_client_metrics                             *)
(*   Invoice_Analysis.calculate_client_score                               *)
(*   Invoice_Analysis.get_grouped_customer_invoice_data                    *)
(* with the outcomes of get_client_followups (src/Sentiment_analysis.py)   *)
(* and validate_billing_response (src/test_billing_analysis.py).           *)
(*                                                                         *)
(* Numbers.  Money amounts are integers.  Calendar dates are day numbers,  *)
(* NoDate is Python's None.  A value the code rounds to 4 decimals is kept *)
(* as an integer count of 1/10000 (RatioUnit), a value rounded to 2        *)
(* decimals as a count of 1/100.  Inside calculate_client_score a score    *)
(* component x is kept as the integer x * 10000 * T and a score s as       *)
(* s * 1000000 * T, where T is the function's total_invoice_amount, so     *)
(* every division of the source is exact here; round() is RoundDiv.        *)
(***************************************************************************)
EXTENDS Integers, Sequences, FiniteSets, TLC

\* ---- bounds of the model ------------------------------------------------
MaxInvoices == 4
MaxHistory == 5
MaxDays == 95
T0 == 200
NowSkew == 30

\* ---- program constants ---------------------------------------------------
NoDate == 0
RatioUnit == 10000
\* Python's None in a text field
NoText == "None"

VARIABLES
    pc,                          \* position in the pipeline
    today,                       \* calculate_client_metrics' today
    invoices,                    \* the invoice list, as far as the loop has consumed it
    metrics_data,                \* the accumulators of calculate_client_metrics
    overdue_days_list,
    overdue_invoice_ids,
    overdue_amount_list,
    overdue_buckets,
    all_invoices_details,
    last_invoice_date,
    last_payment_date,
    next_upcoming_payment_date,
    final_metrics,               \* the mapping calculate_client_metrics returns
    sentiment,                   \* metrics['sentiment_score_from_comm'], in RatioUnit
    now,                         \* timezone.now().date() as read by calculate_client_score
    score_details,               \* the mapping calculate_client_score returns
    score_locals,                \* locals of that call at its return
    now_again,                   \* the clock at a second, identical call
    score_again,                 \* what the second call returns
    days_arg,                    \* get_overdue_bucket's argument
    bucket_name,                 \* get_overdue_bucket's result
    perm_invoices,               \* the same invoices handed over in another order
    perm_metrics,                \* calculate_client_metrics of the reordered list
    perm_score,                  \* calculate_client_score of the reordered list
    customers_queryset,          \* the customers a batch call iterates over
    lookups,                     \* what get_client_followups did, per customer so far
    results,                     \* the batch call's results list
    response,                    \* what the batch call returns
    summary_before,              \* customers with a stored sentiment summary, before the call
    summary_records,             \* customers with a stored sentiment summary
    pct_args,                    \* an overdue count and an invoice count
    pct_result,                  \* the two percentages computed from them
    raw_invoices,                \* invoices as a caller may pass them, unconverted
    raw_result                   \* how calculate_client_metrics ended on them

vars == <<pc, today, invoices, metrics_data, overdue_days_list, overdue_invoice_ids,
          overdue_amount_list, overdue_buckets, all_invoices_details, last_invoice_date,
          last_payment_date, next_upcoming_payment_date, final_metrics, sentiment, now,
          score_details, score_locals, now_again, score_again, days_arg, bucket_name,
          perm_invoices, perm_metrics, perm_score, customers_queryset, lookups, results,
          response, summary_before, summary_records, pct_args, pct_result, raw_invoices,
          raw_result>>

metricsVars == <<metrics_data, overdue_days_list, overdue_invoice_ids, overdue_amount_list,
                 overdue_buckets, all_invoices_details, last_invoice_date,
                 last_payment_date, next_upcoming_payment_date>>

scoreVars == <<sentiment, now, score_details, score_locals, now_again, score_again>>

bucketVars == <<days_arg, bucket_name>>

orderVars == <<perm_invoices, perm_metrics, perm_score>>

batchVars == <<customers_queryset, lookups, results, response, summary_before,
               summary_records>>

percentVars == <<pct_args, pct_result>>

rawVars == <<raw_invoices, raw_result>>

\* ---- arithmetic helpers --------------------------------------------------
Max2(a, b) == IF a >= b THEN a ELSE b

Min2(a, b) == IF a <= b THEN a ELSE b

\* round(n / d) to the nearest integer, d > 0.  The source rounds the binary
\* float nearest to n / d; on an exact tie that float lies on either side, here
\* the tie goes to the even neighbour.
RoundDiv(n, d) ==
    LET q == n \div d
        r == n % d
    IN  IF 2 * r > d THEN q + 1
        ELSE IF 2 * r < d THEN q
        ELSE IF q % 2 = 0 THEN q ELSE q + 1

RECURSIVE SumSeq(_)
SumSeq(s) == IF s = <<>> THEN 0 ELSE Head(s) + SumSeq(Tail(s))

RECURSIVE MaxSeq(_)
MaxSeq(s) == IF Len(s) = 1 THEN s[1] ELSE Max2(Head(s), MaxSeq(Tail(s)))

\* ---- binary floating point, as Python's float computes ---------------------
\* A natural number of any size is a sequence of limbs, least significant
\* first, each below LimbBase, without leading zero limbs; zero is <<>>.
LimbBits == 13

RECURSIVE Pow2(_)
Pow2(k) == IF k = 0 THEN 1 ELSE 2 * Pow2(k - 1)

LimbBase == Pow2(LimbBits)

RECURSIVE Trim(_)
Trim(a) ==
    IF a = <<>> THEN <<>>
    ELSE IF a[Len(a)] = 0 THEN Trim(SubSeq(a, 1, Len(a) - 1)) ELSE a

RECURSIVE BigFromInt(_)
BigFromInt(n) ==
    IF n = 0 THEN <<>> ELSE << n % LimbBase >> \o BigFromInt(n \div LimbBase)

RECURSIVE BigToInt(_)
BigToInt(a) == IF a = <<>> THEN 0 ELSE Head(a) + LimbBase * BigToInt(Tail(a))

RECURSIVE BigAddCarry(_, _, _)
BigAddCarry(a, b, carry) ==
    IF a = <<>> /\ b = <<>> THEN (IF carry = 0 THEN <<>> ELSE << carry >>)
    ELSE LET x == IF a = <<>> THEN 0 ELSE Head(a)
             y == IF b = <<>> THEN 0 ELSE Head(b)
             t == x + y + carry
         IN  << t % LimbBase >>
             \o BigAddCarry(IF a = <<>> THEN <<>> ELSE Tail(a),
                            IF b = <<>> THEN <<>> ELSE Tail(b), t \div LimbBase)

BigAdd(a, b) == BigAddCarry(a, b, 0)

\* a * k + carry for a small k
RECURSIVE BigMulSmallCarry(_, _, _)
BigMulSmallCarry(a, k, carry) ==
    IF a = <<>> THEN BigFromInt(carry)
    ELSE LET t == Head(a) * k + carry
         IN  << t % LimbBase >> \o BigMulSmallCarry(Tail(a), k, t \div LimbBase)

BigMulSmall(a, k) == Trim(BigMulSmallCarry(a, k, 0))

RECURSIVE BigMul(_, _)
BigMul(a, b) ==
    IF b = <<>> \/ a = <<>> THEN <<>>
    ELSE LET rest == BigMul(a, Tail(b))
         IN  BigAdd(BigMulSmall(a, Head(b)), IF rest = <<>> THEN <<>> ELSE << 0 >> \o rest)

\* quotient and remainder of a by a small k, most significant limb first
RECURSIVE BigDivSmallFrom(_, _, _, _)
BigDivSmallFrom(a, k, i, rem) ==
    IF i = 0 THEN [ quot |-> <<>>, rem |-> rem ]
    ELSE LET t == rem * LimbBase + a[i]
             lower == BigDivSmallFrom(a, k, i - 1, t % k)
         IN  [ quot |-> lower.quot \o << t \div k >>, rem |-> lower.rem ]

BigDivSmall(a, k) ==
    LET r == BigDivSmallFrom(a, k, Len(a), 0)
    IN  [ quot |-> Trim(r.quot), rem |-> r.rem ]

RECURSIVE BitsOf(_)
BitsOf(n) == IF n = 0 THEN 0 ELSE 1 + BitsOf(n \div 2)

BitLength(a) == IF a = <<>> THEN 0 ELSE LimbBits * (Len(a) - 1) + BitsOf(a[Len(a)])

ZeroLimbs(n) == [i \in 1..n |-> 0]

\* a * 2^k
ShiftLeft(a, k) ==
    IF a = <<>> THEN <<>>
    ELSE ZeroLimbs(k \div LimbBits) \o BigMulSmall(a, Pow2(k % LimbBits))

\* a \div 2^k, and whether a remainder was dropped
ShiftRight(a, k) ==
    LET whole == k \div LimbBits
        dropped == SubSeq(a, 1, IF whole < Len(a) THEN whole ELSE Len(a))
        kept == SubSeq(a, whole + 1, Len(a))
        d == BigDivSmall(kept, Pow2(k % LimbBits))
    IN  [ quot |-> d.quot,
          inexact |-> d.rem # 0 \/ Trim(dropped) # <<>> ]

IsOdd(a) == a # <<>> /\ a[1] % 2 = 1

\* a float is mant * 2^exp with mant below 2^53; 0.0 has mant <<>>
MantissaBits == 53

\* the float nearest to mant * 2^exp (a little more when sticky), ties to even
RoundToFloat(mant, exp, sticky) ==
    LET excess == BitLength(mant) - MantissaBits
    IN  IF excess <= 0
        THEN [ mant |-> mant, exp |-> exp ]
        ELSE LET top == ShiftRight(mant, excess)
                 half == ShiftRight(mant, excess - 1)
                 halfBit == IsOdd(half.quot)
                 below == half.inexact \/ sticky
                 up == halfBit /\ (below \/ IsOdd(top.quot))
                 m == IF up THEN BigAdd(top.quot, << 1 >>) ELSE top.quot
             IN  IF BitLength(m) > MantissaBits
                 THEN [ mant |-> ShiftRight(m, 1).quot, exp |-> exp + excess + 1 ]
                 ELSE [ mant |-> m, exp |-> exp + excess ]

FloatFromInt(n) == [ mant |-> BigFromInt(n), exp |-> 0 ]

\* n / d for integers n >= 0, d > 0 below LimbBase
FloatDiv(n, d) ==
    LET scaled == BigDivSmall(ShiftLeft(BigFromInt(n), 6 * LimbBits), d)
    IN  RoundToFloat(scaled.quot, 0 - 6 * LimbBits, scaled.rem # 0)

FloatMul(x, y) == RoundToFloat(BigMul(x.mant, y.mant), x.exp + y.exp, FALSE)

FloatAdd(x, y) ==
    IF x.mant = <<>> THEN y
    ELSE IF y.mant = <<>> THEN x
    ELSE LET e == IF x.exp <= y.exp THEN x.exp ELSE y.exp
         IN  RoundToFloat(BigAdd(ShiftLeft(x.mant, x.exp - e), ShiftLeft(y.mant, y.exp - e)),
                          e, FALSE)

\* round(x, 2) in 1/100, for x >= 0: the hundredth nearest to the exact value of
\* the float, ties to even
Round2(x) ==
    IF x.mant = <<>> THEN 0
    ELSE LET n == BigMulSmall(x.mant, 100)
         IN  IF x.exp >= 0 THEN BigToInt(ShiftLeft(n, x.exp))
             ELSE LET q == ShiftRight(n, 0 - x.exp)
                      h == ShiftRight(n, 0 - x.exp - 1)
                      halfBit == IsOdd(h.quot)
                      up == halfBit /\ (h.inexact \/ IsOdd(q.quot))
                  IN  BigToInt(q.quot) + (IF up THEN 1 ELSE 0)

\* the literals 0.7 and 0.3 are the floats nearest to 7/10 and 3/10
\* (count / invoice_count) * 100, 0.0 for an empty list (line 336)
OverduePercentageCount(count, invoice_count) ==
    IF invoice_count # 0
    THEN FloatMul(FloatDiv(count, invoice_count), FloatFromInt(100))
    ELSE FloatFromInt(0)

\* 0.7 * x + 0.3 * x (line 337)
BlendedOverduePercentage(x) ==
    FloatAdd(FloatMul(FloatDiv(7, 10), x), FloatMul(FloatDiv(3, 10), x))

\* ---- get_overdue_bucket --------------------------------------------------
\* variant: upper edges exclusive
get_overdue_bucket_strict(days_overdue) ==
    IF days_overdue < 30 THEN "0-30 days"
    ELSE IF 31 <= days_overdue /\ days_overdue < 60 THEN "31-60 days"
    ELSE IF 61 <= days_overdue /\ days_overdue < 90 THEN "61-90 days"
    ELSE "90+ days"

\* variant: the first bucket is the 'Upcoming' one
get_overdue_bucket_upcoming(days_overdue) ==
    IF days_overdue <= 30 THEN "Upcoming"
    ELSE IF 31 <= days_overdue /\ days_overdue <= 60 THEN "31-60 days"
    ELSE IF 61 <= days_overdue /\ days_overdue <= 90 THEN "61-90 days"
    ELSE "90+ days"

get_overdue_bucket(days_overdue) ==
    IF days_overdue <= 30 THEN "0-30 days"
    ELSE IF 31 <= days_overdue /\ days_overdue <= 60 THEN "31-60 days"
    ELSE IF 61 <= days_overdue /\ days_overdue <= 90 THEN "61-90 days"
    ELSE "90+ days"

BucketLabels == {"Upcoming", "0-30 days", "31-60 days", "61-90 days", "90+ days"}

OverdueLabels == {"0-30 days", "31-60 days", "61-90 days", "90+ days"}

\* ---- calculate_client_metrics: the loop body -----------------------------
metrics_data_init ==
    [ total_invoice_amount |-> 0, total_received |-> 0, total_receivable |-> 0,
      total_overdue_amount |-> 0, overdue_invoice_count |-> 0, paid_on_time_count |-> 0,
      paid_late_count |-> 0, upcoming_invoice_count |-> 0, upcoming_invoice_amount |-> 0,
      partial_paid_on_time_count |-> 0, partial_paid_late_count |-> 0,
      disputed_invoice_count |-> 0, recurring_delay_count |-> 0 ]

overdue_buckets_init == [b \in BucketLabels |-> [count |-> 0, amount |-> 0]]

\* variant: no clamp at 0
Receivable_unclamped(amount, received) == amount - received

\* variant: payments ignored
Receivable_gross(amount, received) == Max2(amount, 0)

Receivable(amount, received) == Max2(amount - received, 0)

PaymentStatus(received, receivable) ==
    IF received > 0
    THEN (IF receivable <= 0 THEN "Paid" ELSE "Partially Paid")
    ELSE "Unpaid"

DaysPastDue(due_date, tdy) ==
    IF due_date # NoDate /\ due_date < tdy THEN tdy - due_date ELSE 0

\* variant: due today counts as overdue
IsOverdue_inclusive(due_date, tdy, receivable) ==
    due_date # NoDate /\ due_date <= tdy /\ receivable > 0

IsOverdue(due_date, tdy, receivable) ==
    due_date # NoDate /\ due_date < tdy /\ receivable > 0

\* variant: the bucket's amount is not accumulated
AddToBucket_countOnly(buckets, name, receivable) ==
    [buckets EXCEPT ![name].count = @ + 1]

AddToBucket(buckets, name, receivable) ==
    [buckets EXCEPT ![name].count = @ + 1, ![name].amount = @ + receivable]

\* variant: a payment on the due date itself counts as late
TimingCounter_strictDue(amount, received, due_date, last_paid_date_val) ==
    IF received >= amount /\ due_date # NoDate /\ last_paid_date_val # NoDate
    THEN (IF last_paid_date_val < due_date THEN "paid_on_time_count" ELSE "paid_late_count")
    ELSE IF 0 < received /\ received < amount /\ due_date # NoDate
            /\ last_paid_date_val # NoDate
    THEN (IF last_paid_date_val < due_date THEN "partial_paid_on_time_count"
          ELSE "partial_paid_late_count")
    ELSE "none"

\* which of the four payment-timing counters the invoice increments, or "none"
TimingCounter(amount, received, due_date, last_paid_date_val) ==
    IF received >= amount /\ due_date # NoDate /\ last_paid_date_val # NoDate
    THEN (IF last_paid_date_val <= due_date THEN "paid_on_time_count" ELSE "paid_late_count")
    ELSE IF 0 < received /\ received < amount /\ due_date # NoDate
            /\ last_paid_date_val # NoDate
    THEN (IF last_paid_date_val <= due_date THEN "partial_paid_on_time_count"
          ELSE "partial_paid_late_count")
    ELSE "none"

\* variant: a payment scheduled for today counts as upcoming
IsUpcoming_inclusive(upcoming_payment_date, tdy) ==
    upcoming_payment_date # NoDate /\ upcoming_payment_date >= tdy

IsUpcoming(upcoming_payment_date, tdy) ==
    upcoming_payment_date # NoDate /\ upcoming_payment_date > tdy

\* ---- the invoices the loop is fed ----------------------------------------
\* Dates are given relative to T0, the today of the run.
Inv(amount, paid, due, paidd, up, invd, disp, ao) ==
    [ invoice_amount |-> amount, last_paid_amount |-> paid, due_date |-> due,
      last_paid_date |-> paidd, upcoming_payment_date |-> up, invoice_date |-> invd,
      is_disputed |-> disp, amount_overdue |-> ao ]

InvoiceDomain ==
    { \* overpaid before the due date, with a further payment scheduled
      Inv(1, 2, T0 - 10, T0 - 20, T0 + 5, T0 - 40, FALSE, 0),
      \* unpaid, 12 days overdue, invoiced recently
      Inv(1, 0, T0 - 12, NoDate, NoDate, T0 - 30, FALSE, 1),
      \* unpaid, 10 days overdue, invoiced earlier
      Inv(1, 0, T0 - 10, NoDate, NoDate, T0 - 50, FALSE, 1),
      \* partly paid after the due date, 70 days overdue, disputed; the caller's
      \* amount_overdue still shows the full amount
      Inv(3, 1, T0 - 70, T0 - 5, NoDate, T0 - 90, TRUE, 3),
      \* paid in full on the due date itself
      Inv(1, 1, T0 - 10, T0 - 10, NoDate, T0 - 20, FALSE, 0),
      \* paid in full, due date not recorded
      Inv(1, 1, NoDate, T0 - 3, NoDate, T0 - 25, FALSE, 0) }

\* a payment history: on time, late in full, late in part, and scheduled
HistoryDomain ==
    { Inv(1, 1, T0 - 10, T0 - 10, NoDate, T0 - 20, FALSE, 0),
      Inv(2, 2, T0 - 10, T0 - 5, NoDate, T0 - 20, FALSE, 0),
      Inv(3, 1, T0 - 70, T0 - 5, NoDate, T0 - 90, TRUE, 3),
      Inv(1, 2, T0 - 10, T0 - 20, T0 + 5, T0 - 40, FALSE, 0) }

\* the invoice as the caller hands it over: the template with its identity and
\* the descriptive fields calculate_client_metrics copies through
Identified(t, n) ==
    [ db_invoice_id |-> n, invoice_number |-> n, project_name |-> "project",
      milestone_name |-> NoText, currency_type |-> "USD" ] @@ t

\* the customer of a run that is not part of a batch
TheCustomer == [ id |-> 1, customer_id |-> 1001, customer_name |-> "customer" ]

\* the accumulators before the loop (lines 207-239)
AccInit ==
    [ metrics_data |-> metrics_data_init,
      overdue_days_list |-> <<>>,
      overdue_invoice_ids |-> <<>>,
      overdue_amount_list |-> <<>>,
      overdue_buckets |-> overdue_buckets_init,
      all_invoices_details |-> <<>>,
      last_invoice_date |-> NoDate,
      last_payment_date |-> NoDate,
      next_upcoming_payment_date |-> NoDate ]

\* one iteration of `for inv in invoices` (lines 241-324): the accumulators
\* after the iteration, from the accumulators before it
LoopBody(customer, acc, inv, tdy) ==
    LET amount == inv.invoice_amount
        received == inv.last_paid_amount
        due_date == inv.due_date
        last_paid_date_val == inv.last_paid_date
        upcoming_payment_date == inv.upcoming_payment_date
        invoice_date == inv.invoice_date
        receivable == Receivable(amount, received)
        days_past_due == DaysPastDue(due_date, tdy)
        payment_status == PaymentStatus(received, receivable)
        overdue == IsOverdue(due_date, tdy, receivable)
        days_overdue == tdy - due_date
        timing == TimingCounter(amount, received, due_date, last_paid_date_val)
        upcoming == IsUpcoming(upcoming_payment_date, tdy)
        m1 == [acc.metrics_data EXCEPT
                 !.total_invoice_amount = @ + amount,
                 !.total_received = @ + received,
                 !.total_receivable = @ + receivable,
                 !.disputed_invoice_count = @ + (IF inv.is_disputed THEN 1 ELSE 0),
                 !.total_overdue_amount = @ + (IF overdue THEN receivable ELSE 0),
                 !.overdue_invoice_count = @ + (IF overdue THEN 1 ELSE 0),
                 !.upcoming_invoice_count = @ + (IF upcoming THEN 1 ELSE 0),
                 !.upcoming_invoice_amount = @ + (IF upcoming THEN receivable ELSE 0)]
    IN  [ metrics_data |->
              IF timing = "none" THEN m1 ELSE [m1 EXCEPT ![timing] = @ + 1],
          last_invoice_date |->
              IF invoice_date # NoDate
                 /\ (acc.last_invoice_date = NoDate
                     \/ invoice_date > acc.last_invoice_date)
              THEN invoice_date ELSE acc.last_invoice_date,
          overdue_days_list |->
              IF overdue THEN Append(acc.overdue_days_list, days_overdue)
              ELSE acc.overdue_days_list,
          overdue_invoice_ids |->
              IF overdue THEN Append(acc.overdue_invoice_ids, inv.db_invoice_id)
              ELSE acc.overdue_invoice_ids,
          overdue_amount_list |->
              IF overdue THEN Append(acc.overdue_amount_list, receivable)
              ELSE acc.overdue_amount_list,
          overdue_buckets |->
              IF overdue
              THEN AddToBucket(acc.overdue_buckets, get_overdue_bucket(days_overdue),
                               receivable)
              ELSE acc.overdue_buckets,
          last_payment_date |->
              IF received >= amount /\ due_date # NoDate /\ last_paid_date_val # NoDate
                 /\ (acc.last_payment_date = NoDate
                     \/ last_paid_date_val > acc.last_payment_date)
              THEN last_paid_date_val ELSE acc.last_payment_date,
          next_upcoming_payment_date |->
              IF upcoming /\ (acc.next_upcoming_payment_date = NoDate
                              \/ upcoming_payment_date < acc.next_upcoming_payment_date)
              THEN upcoming_payment_date ELSE acc.next_upcoming_payment_date,
          all_invoices_details |-> Append(acc.all_invoices_details,
              [ invoice_number |-> inv.invoice_number,
                invoice_generated_date |-> invoice_date,
                invoice_due_date |-> due_date,
                days_past_due |-> days_past_due,
                client_name |-> customer.customer_name,
                project_name |-> inv.project_name,
                milestone |-> IF inv.milestone_name = NoText THEN ""
                              ELSE inv.milestone_name,
                invoice_amount |-> amount,
                payment_status |-> payment_status,
                payment_received_date |-> last_paid_date_val,
                outstanding_amount |-> receivable,
                currency |-> inv.currency_type ]) ]

\* the accumulators as the running loop holds them
Accumulators ==
    [ metrics_data |-> metrics_data,
      overdue_days_list |-> overdue_days_list,
      overdue_invoice_ids |-> overdue_invoice_ids,
      overdue_amount_list |-> overdue_amount_list,
      overdue_buckets |-> overdue_buckets,
      all_invoices_details |-> all_invoices_details,
      last_invoice_date |-> last_invoice_date,
      last_payment_date |-> last_payment_date,
      next_upcoming_payment_date |-> next_upcoming_payment_date ]

\* the loop consumes one more invoice of the caller's list
LoopStep(domain, maxlen) ==
    /\ pc = "loop"
    /\ Len(invoices) < maxlen
    /\ \E t \in domain :
        LET inv == Identified(t, Len(invoices) + 1)
            acc == LoopBody(TheCustomer, Accumulators, inv, today)
        IN  /\ invoices' = Append(invoices, inv)
            /\ metrics_data' = acc.metrics_data
            /\ last_invoice_date' = acc.last_invoice_date
            /\ overdue_days_list' = acc.overdue_days_list
            /\ overdue_invoice_ids' = acc.overdue_invoice_ids
            /\ overdue_amount_list' = acc.overdue_amount_list
            /\ overdue_buckets' = acc.overdue_buckets
            /\ last_payment_date' = acc.last_payment_date
            /\ next_upcoming_payment_date' = acc.next_upcoming_payment_date
            /\ all_invoices_details' = acc.all_invoices_details
    /\ UNCHANGED <<pc, today, final_metrics>>
    /\ UNCHANGED scoreVars
    /\ UNCHANGED bucketVars
    /\ UNCHANGED orderVars
    /\ UNCHANGED percentVars
    /\ UNCHANGED rawVars
    /\ UNCHANGED batchVars

\* ---- calculate_client_metrics: after the loop (lines 326-383) -----------
\* amount_overdue of the first invoice carrying inv_id, 0 when there is none
RECURSIVE LookupAmountOverdue(_, _)
LookupAmountOverdue(invs, inv_id) ==
    IF invs = <<>> THEN 0
    ELSE IF Head(invs).db_invoice_id = inv_id THEN Head(invs).amount_overdue
    ELSE LookupAmountOverdue(Tail(invs), inv_id)

RECURSIVE WeightedOverdueDays(_, _, _)
WeightedOverdueDays(days, ids, invs) ==
    IF days = <<>> \/ ids = <<>> THEN 0
    ELSE Head(days) * LookupAmountOverdue(invs, Head(ids))
         + WeightedOverdueDays(Tail(days), Tail(ids), invs)

\* variant: no past invoice counts as a perfect record
PaymentRatio_vacuous(count, total_past_invoices) ==
    IF total_past_invoices > 0 THEN RoundDiv(RatioUnit * count, total_past_invoices)
    ELSE RatioUnit

\* round(count / total_past_invoices, 4), 0.0 when there is no past invoice
PaymentRatio(count, total_past_invoices) ==
    IF total_past_invoices > 0 THEN RoundDiv(RatioUnit * count, total_past_invoices) ELSE 0

\* variant: the history-length condition dropped
RecurringDelayRatio_anyHistory(total_late_payments, total_past_invoices) ==
    IF total_late_payments >= 3 THEN RatioUnit ELSE 0

RecurringDelayRatio(total_late_payments, total_past_invoices) ==
    IF total_late_payments >= 3 /\ total_past_invoices >= 5 THEN RatioUnit ELSE 0

RECURSIVE InsertAsc(_, _)
InsertAsc(x, s) ==
    IF s = <<>> THEN << x >>
    ELSE IF x <= Head(s) THEN << x >> \o s
    ELSE << Head(s) >> \o InsertAsc(x, Tail(s))

RECURSIVE SortAsc(_)
SortAsc(s) == IF s = <<>> THEN <<>> ELSE InsertAsc(Head(s), SortAsc(Tail(s)))

\* round(np.percentile(amounts, p), 2) in 1/100: linear interpolation between the
\* two order statistics around position (n - 1) * p / 100; 0.0 for no amounts
Percentile(amounts, p) ==
    IF amounts = <<>> THEN 0
    ELSE LET sorted == SortAsc(amounts)
             below == ((Len(amounts) - 1) * p) \div 100
             part == ((Len(amounts) - 1) * p) % 100
         IN  IF part = 0 THEN 100 * sorted[below + 1]
             ELSE 100 * sorted[below + 1] + part * (sorted[below + 2] - sorted[below + 1])

\* round(statistics.median(amounts), 2) in 1/100; 0.0 for no amounts
Median(amounts) ==
    IF amounts = <<>> THEN 0
    ELSE LET sorted == SortAsc(amounts)
             n == Len(amounts)
         IN  IF n % 2 = 1 THEN 100 * sorted[(n + 1) \div 2]
             ELSE 50 * (sorted[n \div 2] + sorted[n \div 2 + 1])

FinalMetrics(customer, invs, md, days, ids, amounts, buckets, details, lid, lpd, nupd) ==
    LET invoice_count == Len(invs)
        weighted_overdue_days == WeightedOverdueDays(days, ids, invs)
        total_weight == SumSeq(amounts)
        total_past_invoices == invoice_count - md.upcoming_invoice_count
        total_late_payments == md.paid_late_count + md.partial_paid_late_count
    IN  md @@
        [ customer_id |-> ToString(customer.customer_id),
          customer_name |-> customer.customer_name,
          total_invoices |-> invoice_count,
          invoices_details |-> details,
          \* percentages and day averages are counts of 1/100
          overdue_percentage |->
              Round2(BlendedOverduePercentage(
                         OverduePercentageCount(md.overdue_invoice_count, invoice_count))),
          overdue_percentage_amount |->
              IF md.total_invoice_amount > 0
              THEN RoundDiv(100 * 100 * md.total_overdue_amount, md.total_invoice_amount)
              ELSE 0,
          overdue_percentage_count |->
              Round2(OverduePercentageCount(md.overdue_invoice_count, invoice_count)),
          max_overdue_days |-> IF days # <<>> THEN MaxSeq(days) ELSE 0,
          overdue_amount_percentile_25 |-> Percentile(amounts, 25),
          overdue_amount_median |-> Median(amounts),
          overdue_amount_percentile_75 |-> Percentile(amounts, 75),
          avg_overdue_days |->
              IF total_weight # 0 THEN RoundDiv(100 * weighted_overdue_days, total_weight)
              ELSE 0,
          overdue_buckets |-> buckets,
          total_past_invoices |-> total_past_invoices,
          on_time_payment_ratio |->
              PaymentRatio(md.paid_on_time_count + md.partial_paid_on_time_count,
                           total_past_invoices),
          late_payment_ratio |->
              PaymentRatio(md.paid_late_count + md.partial_paid_late_count,
                           total_past_invoices),
          recurring_delay_ratio |->
              RecurringDelayRatio(total_late_payments, total_past_invoices),
          next_upcoming_payment_date |-> nupd,
          last_invoice_date |-> lid,
          last_payment_date |-> lpd ]

\* the loop over a whole list (lines 241-324)
RECURSIVE RunLoop(_, _, _, _)
RunLoop(customer, acc, invs, tdy) ==
    IF invs = <<>> THEN acc
    ELSE RunLoop(customer, LoopBody(customer, acc, Head(invs), tdy), Tail(invs), tdy)

\* calculate_client_metrics as one call (lines 204-383)
calculate_client_metrics(customer, invs, tdy) ==
    LET acc == RunLoop(customer, AccInit, invs, tdy)
    IN  FinalMetrics(customer, invs, acc.metrics_data, acc.overdue_days_list,
                     acc.overdue_invoice_ids, acc.overdue_amount_list,
                     acc.overdue_buckets, acc.all_invoices_details,
                     acc.last_invoice_date, acc.last_payment_date,
                     acc.next_upcoming_payment_date)

NoMetrics == [ total_invoices |-> -1 ]

\* the batch call has not returned
NoResponse == [ pending |-> TRUE ]

NoCounts == [ overdue_invoice_count |-> 0, invoice_count |-> 0 ]

NoPercentages == [ overdue_percentage |-> -1, overdue_percentage_count |-> -1 ]

Finalize ==
    /\ pc = "loop"
    /\ pc' = "metrics"
    /\ final_metrics' = FinalMetrics(TheCustomer, invoices, metrics_data,
                                     overdue_days_list,
                                     overdue_invoice_ids, overdue_amount_list,
                                     overdue_buckets, all_invoices_details,
                                     last_invoice_date, last_payment_date,
                                     next_upcoming_payment_date)
    /\ UNCHANGED <<today, invoices>>
    /\ UNCHANGED metricsVars
    /\ UNCHANGED scoreVars
    /\ UNCHANGED bucketVars
    /\ UNCHANGED orderVars
    /\ UNCHANGED percentVars
    /\ UNCHANGED rawVars
    /\ UNCHANGED batchVars

\* ---- calculate_client_score (lines 57-202) -------------------------------
\* variant: a single past invoice counts as history
InsufficientHistory_strict(total_past_invoices) == total_past_invoices < 1

InsufficientHistory(total_past_invoices) == total_past_invoices <= 1

\* variant: the early exit returns no summary
NeutralResult_noSummary ==
    [ client_score |-> 5000,
      sentiment_score |-> 5000,
      risk_level |-> "Medium",
      key_factors |-> << "Limited or no payment history available" >>,
      recommendations |-> << "Monitor initial payments closely",
                             "Request upfront deposit for trust" >> ]

NeutralResult ==
    [ client_score |-> 5000,
      sentiment_score |-> 5000,
      risk_level |-> "Medium",
      key_factors |-> << "Limited or no payment history available" >>,
      recommendations |-> << "Monitor initial payments closely",
                             "Request upfront deposit for trust" >>,
      analysis_summary |->
          "Client has limited invoice data, resulting in a neutral score of 0.5." ]

\* the (invoice_date, days_overdue) pairs of lines 113-118, in input order
RECURSIVE TrendPairs(_, _)
TrendPairs(invs, clock) ==
    IF invs = <<>> THEN <<>>
    ELSE LET inv == Head(invs)
             rest == TrendPairs(Tail(invs), clock)
         IN  IF inv.due_date # NoDate /\ inv.invoice_date # NoDate
                /\ inv.due_date < clock /\ inv.amount_overdue > 0
             THEN << [invoice_date |-> inv.invoice_date,
                      days_overdue |-> clock - inv.due_date] >> \o rest
             ELSE rest

\* list.sort(key=invoice_date): stable, ascending
RECURSIVE InsertByDate(_, _)
InsertByDate(x, sorted) ==
    IF sorted = <<>> THEN << x >>
    ELSE LET n == Len(sorted)
         IN  IF sorted[n].invoice_date <= x.invoice_date THEN Append(sorted, x)
             ELSE Append(InsertByDate(x, SubSeq(sorted, 1, n - 1)), sorted[n])

RECURSIVE SortByInvoiceDate(_)
SortByInvoiceDate(pairs) ==
    IF pairs = <<>> THEN <<>>
    ELSE LET n == Len(pairs)
         IN  InsertByDate(pairs[n], SortByInvoiceDate(SubSeq(pairs, 1, n - 1)))

DaysOf(pairs) == [i \in 1..Len(pairs) |-> pairs[i].days_overdue]

\* variant: split rounded up
Midpoint_ceil(n) == (n + 1) \div 2

Midpoint(n) == n \div 2

\* the trend adjustment in tenths: -1 worsening, 1 improving, 0 none (lines 120-132)
\* variant: the 10% band around the older mean dropped
TrendAdjustment_noDeadband(overdue_pairs) ==
    IF Len(overdue_pairs) >= 2
    THEN LET sorted == SortByInvoiceDate(overdue_pairs)
             midpoint == Midpoint(Len(sorted))
             recent_days == DaysOf(SubSeq(sorted, midpoint + 1, Len(sorted)))
             older_days == DaysOf(SubSeq(sorted, 1, midpoint))
             sr == SumSeq(recent_days)
             so == SumSeq(older_days)
         IN  IF sr * Len(older_days) > so * Len(recent_days) /\ so > 0 THEN -1
             ELSE IF sr * Len(older_days) < so * Len(recent_days) THEN 1
             ELSE 0
    ELSE 0

TrendAdjustment(overdue_pairs) ==
    IF Len(overdue_pairs) >= 2
    THEN LET sorted == SortByInvoiceDate(overdue_pairs)
             midpoint == Midpoint(Len(sorted))
             recent_days == DaysOf(SubSeq(sorted, midpoint + 1, Len(sorted)))
             older_days == DaysOf(SubSeq(sorted, 1, midpoint))
             \* avg_recent = sr / lr, avg_older = so / lo; both halves are non-empty
             sr == SumSeq(recent_days)
             lr == Len(recent_days)
             so == SumSeq(older_days)
             lo == Len(older_days)
         IN  IF 10 * sr * lo > 11 * so * lr /\ so > 0 THEN -1
             ELSE IF 10 * sr * lo < 9 * so * lr THEN 1
             ELSE 0
    ELSE 0

\* variant: no clamp
ClampScore_none(score, one) == score

\* max(0.0, min(1.0, score)), with 1.0 = one
ClampScore(score, one) == Max2(0, Min2(one, score))

RiskLevel(score, one) ==
    IF 2 * score < one THEN "High"
    ELSE IF 10 * score < 7 * one THEN "Medium"
    ELSE "Low"

\* key_factors (lines 166-183); a factor is kept by its label, without the figure
\* the source formats into it
SelectFactors(flags) ==
    LET f1 == IF flags.high_overdue THEN << "High overdue amount ratio" >> ELSE <<>>
        f2 == IF flags.low_on_time THEN << "Low on-time payment ratio" >> ELSE <<>>
        f3 == IF flags.trend < 0 THEN << "Worsening payment trend" >>
              ELSE IF flags.trend > 0 THEN << "Improving payment trend" >> ELSE <<>>
        f4 == IF flags.severe THEN << "Has invoices overdue by more than 60 days." >>
              ELSE <<>>
        f5 == IF flags.disputes THEN << "High number of invoice disputes" >> ELSE <<>>
        f6 == IF flags.recurring THEN << "Recurring payment delays detected." >> ELSE <<>>
        all == f1 \o f2 \o f3 \o f4 \o f5 \o f6
    IN  IF all = <<>> THEN << "Excellent payment behavior" >> ELSE all

SelectRecommendations(risk_level, overdue_amount) ==
    LET tier == IF risk_level = "High"
                THEN << "Implement stricter payment terms and late payment penalties",
                        "Require upfront deposits for new projects" >>
                ELSE IF risk_level = "Medium"
                THEN << "Offer incentives for early payments",
                        "Monitor upcoming invoices closely" >>
                ELSE << "Offer extended credit terms for retention",
                        "Maintain current terms" >>
    IN  IF overdue_amount > 0
        THEN Append(tier, "Propose structured payment plan for overdue amounts")
        ELSE tier

\* f"{x:.2f}" of a non-negative x given in 1/100
Format2(n) ==
    ToString(n \div 100) \o "." \o ToString((n % 100) \div 10) \o ToString(n % 10)

\* sep.join(texts)
RECURSIVE Join(_, _)
Join(texts, sep) ==
    IF texts = <<>> THEN ""
    ELSE IF Len(texts) = 1 THEN texts[1]
    ELSE texts[1] \o sep \o Join(Tail(texts), sep)

\* variant: no truncation
FirstN_all(s, n) == s

FirstN(s, n) == SubSeq(s, 1, Min2(n, Len(s)))

\* variant: the two weights exchanged
BlendedSentiment_swapped(base_score, sent, T) == 3 * base_score + 7 * sent * 100 * T

\* (score * 0.7) + (sentiment_score_from_comm * 0.3) at line 150, over 10 * one;
\* score is still the weighted sum of the four components there
BlendedSentiment(base_score, sent, T) == 7 * base_score + 3 * sent * 100 * T

\* The call: metrics is what calculate_client_metrics returned, sent is
\* metrics['sentiment_score_from_comm'], clock is timezone.now().date().
\* ret is the returned mapping, locals the function's locals at return.
calculate_client_score(metrics, sent, invs, clock) ==
    LET T == IF metrics.total_invoice_amount # 0 THEN metrics.total_invoice_amount ELSE 1
        total_invoices == IF metrics.total_invoices # 0 THEN metrics.total_invoices ELSE 1
        upcoming_invoices == metrics.upcoming_invoice_count
        overdue_amount == metrics.total_overdue_amount
        on_time_payment_ratio == metrics.on_time_payment_ratio
        dispute_count == metrics.disputed_invoice_count
        recurring_delay_ratio == metrics.recurring_delay_ratio
        total_past_invoices == total_invoices - upcoming_invoices
        \* a component is x * RatioUnit * T, a score is s * 100 * RatioUnit * T
        oneC == RatioUnit * T
        one == 100 * oneC
        overdue_score == oneC - Min2(RatioUnit * overdue_amount, oneC)
        on_time_ratio_score == on_time_payment_ratio * T
        severe_overdue_amount == metrics.overdue_buckets["61-90 days"].amount
                                 + metrics.overdue_buckets["90+ days"].amount
        aging_score == oneC - Min2(RatioUnit * severe_overdue_amount, oneC)
        \* penalties in RatioUnit: 0.05 per dispute, min(ratio * 0.10, 0.10)
        behavioral_penalty == (IF dispute_count > 0 THEN 500 * dispute_count ELSE 0)
                              + Min2(recurring_delay_ratio \div 10, 1000)
        behavioral_score == (RatioUnit - Min2(behavioral_penalty, RatioUnit)) * T
        \* min(T / 500000, 0.05) as a score
        project_value_bonus == Min2(2 * T * T, 50000 * T)
        trend_adjustment == TrendAdjustment(TrendPairs(invs, clock))
        base_score == 40 * overdue_score + 25 * on_time_ratio_score
                      + 20 * aging_score + 15 * behavioral_score
        final_sentiment_score == BlendedSentiment(base_score, sent, T)
        adjusted == base_score + trend_adjustment * 10 * oneC + project_value_bonus
        score == ClampScore(adjusted, one)
        risk_level == RiskLevel(score, one)
        key_factors == SelectFactors(
            [ high_overdue |-> 10 * overdue_amount > 3 * T,
              low_on_time |-> on_time_payment_ratio < 6000,
              trend |-> trend_adjustment,
              severe |-> severe_overdue_amount > 0,
              disputes |-> dispute_count > 0,
              recurring |-> recurring_delay_ratio > 2000 ])
        recommendations == SelectRecommendations(risk_level, overdue_amount)
    IN  IF InsufficientHistory(total_past_invoices)
        THEN [ ret |-> NeutralResult,
               locals |-> [ early_exit |-> TRUE ] ]
        ELSE [ ret |-> [ client_score |-> RoundDiv(score, 100 * T),
                         sentiment_score |-> RoundDiv(final_sentiment_score, 1000 * T),
                         risk_level |-> risk_level,
                         key_factors |-> FirstN(key_factors, 5),
                         recommendations |-> FirstN(recommendations, 4),
                         analysis_summary |->
                             "Client score is " \o Format2(RoundDiv(score, 10000 * T))
                             \o " (" \o risk_level \o " risk), driven by: "
                             \o Join(key_factors, ", ") \o "." ],
               locals |-> [ early_exit |-> FALSE,
                            one |-> one,
                            overdue_score |-> overdue_score,
                            on_time_ratio_score |-> on_time_ratio_score,
                            aging_score |-> aging_score,
                            behavioral_score |-> behavioral_score,
                            base_score |-> base_score,
                            trend_adjustment |-> trend_adjustment,
                            project_value_bonus |-> project_value_bonus,
                            score |-> score ] ]

\* ---- the caller: sentiment attached, then the score (lines 430-443) ------
\* sentiment_score_from_comm: 0.5 when the lookup gives nothing, else its value
SentimentInputs == {0, 5000, RatioUnit}

\* the clock calculate_client_score reads: the day of the metrics run or a later one
ClockValues == {T0, T0 + NowSkew}

Score ==
    /\ pc = "metrics"
    /\ \E sent \in SentimentInputs, clock \in ClockValues :
        LET r == calculate_client_score(final_metrics, sent, invoices, clock)
        IN  /\ sentiment' = sent
            /\ now' = clock
            /\ score_details' = r.ret
            /\ score_locals' = r.locals
    /\ pc' = "scored"
    /\ UNCHANGED <<today, invoices, final_metrics, now_again, score_again>>
    /\ UNCHANGED metricsVars
    /\ UNCHANGED bucketVars
    /\ UNCHANGED orderVars
    /\ UNCHANGED percentVars
    /\ UNCHANGED rawVars
    /\ UNCHANGED batchVars

\* a second call on the same metrics, invoices and sentiment, at some clock
ScoreAgain ==
    /\ pc = "scored"
    /\ \E clock \in ClockValues :
        /\ now_again' = clock
        /\ score_again' = calculate_client_score(final_metrics, sentiment, invoices, clock).ret
    /\ pc' = "rescored"
    /\ UNCHANGED <<today, invoices, final_metrics, sentiment, now, score_details,
                   score_locals>>
    /\ UNCHANGED metricsVars
    /\ UNCHANGED bucketVars
    /\ UNCHANGED orderVars
    /\ UNCHANGED percentVars
    /\ UNCHANGED rawVars
    /\ UNCHANGED batchVars

\* ---- get_overdue_bucket as a call ----------------------------------------
BucketDays == (0 - 5) .. MaxDays

BucketCall ==
    /\ pc = "bucket"
    /\ bucket_name' = get_overdue_bucket(days_arg)
    /\ pc' = "bucketed"
    /\ UNCHANGED <<today, invoices, final_metrics, days_arg>>
    /\ UNCHANGED metricsVars
    /\ UNCHANGED scoreVars
    /\ UNCHANGED orderVars
    /\ UNCHANGED percentVars
    /\ UNCHANGED rawVars
    /\ UNCHANGED batchVars

\* ---- specifications ------------------------------------------------------
InitCommon ==
    /\ today = T0
    /\ invoices = <<>>
    /\ metrics_data = metrics_data_init
    /\ overdue_days_list = <<>>
    /\ overdue_invoice_ids = <<>>
    /\ overdue_amount_list = <<>>
    /\ overdue_buckets = overdue_buckets_init
    /\ all_invoices_details = <<>>
    /\ last_invoice_date = NoDate
    /\ last_payment_date = NoDate
    /\ next_upcoming_payment_date = NoDate
    /\ final_metrics = NoMetrics
    /\ sentiment = 5000
    /\ now = T0
    /\ score_details = NeutralResult
    /\ score_locals = [ early_exit |-> TRUE ]
    /\ now_again = T0
    /\ score_again = NeutralResult
    /\ bucket_name = "none"
    /\ perm_invoices = <<>>
    /\ perm_metrics = NoMetrics
    /\ perm_score = NeutralResult
    /\ lookups = <<>>
    /\ results = <<>>
    /\ response = NoResponse
    /\ pct_result = NoPercentages
    /\ raw_result = NoMetrics

Init ==
    /\ InitCommon
    /\ pc = "loop"
    /\ days_arg = 0
    /\ customers_queryset = <<>>
    /\ summary_before = {}
    /\ summary_records = {}
    /\ pct_args = NoCounts
    /\ raw_invoices = <<>>

Next ==
    \/ LoopStep(InvoiceDomain, MaxInvoices)
    \/ Finalize
    \/ Score
    \/ ScoreAgain

Spec == Init /\ [][Next]_vars

\* longer payment histories, metrics only
NextHistory ==
    \/ LoopStep(HistoryDomain, MaxHistory)
    \/ Finalize

SpecHistory == Init /\ [][NextHistory]_vars

\* get_overdue_bucket over a range of day counts
InitBucket ==
    /\ InitCommon
    /\ pc = "bucket"
    /\ days_arg \in BucketDays
    /\ customers_queryset = <<>>
    /\ summary_before = {}
    /\ summary_records = {}
    /\ pct_args = NoCounts
    /\ raw_invoices = <<>>

NextBucket == BucketCall

SpecBucket == InitBucket /\ [][NextBucket]_vars

\* ---- invoices on the edges of the date and amount conditions -------------
MaxEdge == 3

EdgeDomain ==
    { \* unpaid, due exactly today
      Inv(2, 0, T0, NoDate, NoDate, T0 - 30, FALSE, 0),
      \* partly paid on the due date, 40 days overdue, next payment scheduled today
      Inv(2, 1, T0 - 40, T0 - 40, T0, T0 - 60, FALSE, 1),
      \* partly paid after the due date, next payment scheduled in 7 days
      Inv(2, 1, T0 - 5, T0 - 1, T0 + 7, T0 - 20, FALSE, 1),
      \* paid in full after the due date
      Inv(1, 1, T0 - 20, T0 - 15, NoDate, T0 - 40, FALSE, 0),
      \* paid in full, payment date not recorded, a payment scheduled in 3 days
      Inv(1, 1, T0 - 20, NoDate, T0 + 3, T0 - 40, FALSE, 0),
      \* unpaid, due date not recorded, scheduled payment date already past
      Inv(1, 0, NoDate, NoDate, T0 - 2, T0 - 10, FALSE, 1),
      \* overpaid before a due date still ahead
      Inv(1, 2, T0 + 10, T0 - 1, NoDate, T0 - 5, FALSE, 0),
      \* unpaid, due yesterday
      Inv(1, 0, T0 - 1, NoDate, NoDate, T0 - 31, FALSE, 1),
      \* nothing invoiced, nothing paid, dated
      Inv(0, 0, T0 - 3, T0 - 3, NoDate, T0 - 10, FALSE, 0) }

NextEdge ==
    \/ LoopStep(EdgeDomain, MaxEdge)
    \/ Finalize

SpecEdge == Init /\ [][NextEdge]_vars

\* ---- the two count-based percentages of a list (lines 334-337, 366-368) ---
MaxListed == 160

\* the lines applied to an overdue count and an invoice count
Percentages ==
    /\ pc = "counted"
    /\ LET x == OverduePercentageCount(pct_args.overdue_invoice_count,
                                       pct_args.invoice_count)
       IN  pct_result' =
             [ overdue_percentage |-> Round2(BlendedOverduePercentage(x)),
               overdue_percentage_count |-> Round2(x) ]
    /\ pc' = "percentages"
    /\ UNCHANGED <<today, invoices, final_metrics, pct_args>>
    /\ UNCHANGED metricsVars
    /\ UNCHANGED scoreVars
    /\ UNCHANGED bucketVars
    /\ UNCHANGED orderVars
    /\ UNCHANGED batchVars
    /\ UNCHANGED rawVars

\* a list of up to MaxListed invoices of which any number is overdue
InitPercentage ==
    /\ InitCommon
    /\ pc = "counted"
    /\ days_arg = 0
    /\ customers_queryset = <<>>
    /\ summary_before = {}
    /\ summary_records = {}
    /\ raw_invoices = <<>>
    /\ pct_args \in { [ overdue_invoice_count |-> c, invoice_count |-> n ] :
                        c \in 0..MaxListed, n \in 0..MaxListed }
    /\ pct_args.overdue_invoice_count <= pct_args.invoice_count

NextPercentage == Percentages

SpecPercentage == InitPercentage /\ [][NextPercentage]_vars

\* ---- histories long enough to trigger every key factor -------------------
MaxFactors == 5

FactorDomain ==
    { \* partly paid after the due date, 70 days overdue, disputed
      Inv(3, 1, T0 - 70, T0 - 5, NoDate, T0 - 90, TRUE, 3),
      \* partly paid after the due date, 10 days overdue, invoiced recently
      Inv(3, 1, T0 - 10, T0 - 5, NoDate, T0 - 20, FALSE, 2),
      \* paid in full on the due date
      Inv(1, 1, T0 - 10, T0 - 10, NoDate, T0 - 20, FALSE, 0) }

NextFactors ==
    \/ LoopStep(FactorDomain, MaxFactors)
    \/ Finalize
    \/ Score

SpecFactors == Init /\ [][NextFactors]_vars

\* ---- invoice fields as the caller supplies them (lines 243-248) ----------
\* a supplied field value: a number, a date, a text or None
Num(n) == [ number |-> n ]

Date(d) == [ date |-> d ]

Text(t) == [ text |-> t ]

None == [ none |-> TRUE ]

IsNum(raw) == DOMAIN raw = {"number"}

IsDate(raw) == DOMAIN raw = {"date"}

IsText(raw) == DOMAIN raw = {"text"}

\* the truth value Python gives the supplied value
Truthy(raw) ==
    IF IsNum(raw) THEN raw.number # 0
    ELSE IF IsText(raw) THEN raw.text # ""
    ELSE IsDate(raw)

\* the texts float() accepts, with their values
FloatOfText == "2" :> 2

\* float(value or 0.0) at lines 243-244: float() raises on a text that is not a
\* number and on a date
ToFloat(raw) ==
    IF ~Truthy(raw) THEN [ raised |-> FALSE, value |-> 0 ]
    ELSE IF IsNum(raw) THEN [ raised |-> FALSE, value |-> raw.number ]
    ELSE IF IsText(raw) /\ raw.text \in DOMAIN FloatOfText
    THEN [ raised |-> FALSE, value |-> FloatOfText[raw.text] ]
    ELSE [ raised |-> TRUE, value |-> 0 ]

\* parse_date (lines 20-31) on None, "", a date, or a text that is not a date
parse_date(raw) ==
    IF ~Truthy(raw) THEN NoDate
    ELSE IF IsDate(raw) THEN raw.date
    ELSE NoDate

\* the six conversions at the head of an iteration
ConvertFields(raw) ==
    LET amount == ToFloat(raw.invoice_amount)
        received == ToFloat(raw.last_paid_amount)
    IN  [ raised |-> amount.raised \/ received.raised,
          inv |-> [ raw EXCEPT !.invoice_amount = amount.value,
                               !.last_paid_amount = received.value,
                               !.due_date = parse_date(raw.due_date),
                               !.last_paid_date = parse_date(raw.last_paid_date),
                               !.upcoming_payment_date =
                                   parse_date(raw.upcoming_payment_date),
                               !.invoice_date = parse_date(raw.invoice_date) ] ]

Converted(raws) == [ i \in 1..Len(raws) |-> ConvertFields(raws[i]) ]

MaxRaw == 3

RawDomain ==
    { \* well formed: unpaid, 12 days overdue
      Inv(Num(1), Num(0), Date(T0 - 12), None, None, Date(T0 - 30), FALSE, 1),
      \* well formed: paid in full on the due date
      Inv(Num(1), Num(1), Date(T0 - 10), Date(T0 - 10), None, Date(T0 - 20), FALSE, 0),
      \* the amount is a text that is not a number
      Inv(Text("abc"), Num(0), Date(T0 - 10), None, None, Date(T0 - 50), FALSE, 1),
      \* the paid amount is a text that is not a number
      Inv(Num(3), Text("n/a"), Date(T0 - 70), Date(T0 - 5), None, Date(T0 - 90), TRUE, 3),
      \* the amount is a numeric text, the dates are texts that are no dates
      Inv(Text("2"), None, Text("soon"), Text(""), Text("soon"), Text("soon"), FALSE, 2),
      \* no amount, an empty text as paid amount, no due date
      Inv(None, Text(""), None, None, Date(T0 + 5), Date(T0 - 20), FALSE, 0) }

\* calculate_client_metrics on supplied invoices: the first amount that float()
\* rejects raises out of the loop and out of the call
RawCall ==
    /\ pc = "raw"
    /\ LET c == Converted(raw_invoices)
           raised == \E i \in 1..Len(c) : c[i].raised
       IN  /\ raw_result' =
                 IF raised THEN NoMetrics
                 ELSE calculate_client_metrics(
                          TheCustomer, [ i \in 1..Len(c) |-> c[i].inv ], today)
           /\ pc' = IF raised THEN "raised" ELSE "raw_returned"
    /\ UNCHANGED <<today, invoices, final_metrics, raw_invoices>>
    /\ UNCHANGED metricsVars
    /\ UNCHANGED scoreVars
    /\ UNCHANGED bucketVars
    /\ UNCHANGED orderVars
    /\ UNCHANGED batchVars
    /\ UNCHANGED percentVars

InitRaw ==
    /\ InitCommon
    /\ pc = "raw"
    /\ days_arg = 0
    /\ customers_queryset = <<>>
    /\ summary_before = {}
    /\ summary_records = {}
    /\ pct_args = NoCounts
    /\ \E n \in 0..MaxRaw :
         \E templates \in [1..n -> RawDomain] :
           raw_invoices = [ i \in 1..n |-> Identified(templates[i], i) ]

NextRaw == RawCall

SpecRaw == InitRaw /\ [][NextRaw]_vars

\* ---- the same invoices in another order ----------------------------------
MaxOrder == 3

\* invoices of which two carry the same invoice_date and differ in how long
\* they are overdue
OrderDomain ==
    { \* unpaid, 10 days overdue
      Inv(1, 0, T0 - 10, NoDate, NoDate, T0 - 50, FALSE, 1),
      \* unpaid, 25 days overdue, invoiced the same day
      Inv(1, 0, T0 - 25, NoDate, NoDate, T0 - 50, FALSE, 1),
      \* paid in full on the due date
      Inv(1, 1, T0 - 10, T0 - 10, NoDate, T0 - 20, FALSE, 0),
      \* partly paid after the due date, 70 days overdue, disputed
      Inv(3, 1, T0 - 70, T0 - 5, NoDate, T0 - 90, TRUE, 3) }

Orderings(n) ==
    { p \in [1..n -> 1..n] : \A i, j \in 1..n : p[i] = p[j] => i = j }

\* the caller hands the same invoices over in another order; metrics and score
\* are computed again with the same today, sentiment and clock
Reorder ==
    /\ pc = "scored"
    /\ \E p \in Orderings(Len(invoices)) :
        LET permuted == [i \in 1..Len(invoices) |-> invoices[p[i]]]
            m == calculate_client_metrics(TheCustomer, permuted, today)
        IN  /\ perm_invoices' = permuted
            /\ perm_metrics' = m
            /\ perm_score' = calculate_client_score(m, sentiment, permuted, now).ret
    /\ pc' = "reordered"
    /\ UNCHANGED <<today, invoices, final_metrics>>
    /\ UNCHANGED metricsVars
    /\ UNCHANGED scoreVars
    /\ UNCHANGED bucketVars
    /\ UNCHANGED batchVars
    /\ UNCHANGED percentVars
    /\ UNCHANGED rawVars

NextOrder ==
    \/ LoopStep(OrderDomain, MaxOrder)
    \/ Finalize
    \/ Score
    \/ Reorder

SpecOrder == Init /\ [][NextOrder]_vars

\* ---- get_grouped_customer_invoice_data for all active customers ----------
MaxCustomers == 2

\* what get_client_followups (Sentiment_analysis.py) does for one customer: it
\* raises, or returns a list of result entries, of which the caller reads the
\* first one's data.analysis
Raised == [ raised |-> TRUE, data |-> <<>> ]

Returned(entries) == [ raised |-> FALSE, data |-> entries ]

\* SentimentAnalyzer.analyze returned an {"error": ...} payload
ErrorPayload == [ has_score |-> FALSE, sentiment_score |-> 0 ]

Analysis(score) == [ has_score |-> TRUE, sentiment_score |-> score ]

\* a sentiment_score in the analysis that is not a number: json.loads gives None
\* for null and a str for a quoted value (Sentiment_analysis.py line 61)
NotANumber == 0 - 1

LookupOutcomes ==
    { Raised, Returned(<<>>), Returned(<< ErrorPayload >>),
      Returned(<< Analysis(0) >>), Returned(<< Analysis(RatioUnit) >>),
      Returned(<< Analysis(NotANumber) >>) }

\* CustomerSentimentSummary after the lookup for a customer: a lookup that finds
\* followups gets or creates the customer's record and saves it
\* (Sentiment_analysis.py lines 89, 132); one that finds none returns before
\* that (lines 76-77), and SentimentAnalyzer() raises before that (lines 16-17, 79)
StoredAfterLookup(stored, customer, outcome) ==
    IF ~outcome.raised /\ outcome.data # <<>> THEN stored \cup {customer.id} ELSE stored

\* variant: a payload without sentiment_score counts as 0.0
SentimentFromComm_zero(outcome) ==
    IF outcome.raised THEN 5000
    ELSE IF outcome.data # <<>>
    THEN (IF outcome.data[1].has_score THEN outcome.data[1].sentiment_score ELSE 0)
    ELSE 5000

\* sentiment_score_from_comm (lines 430-439): 0.5 unless the lookup returns a
\* first entry whose analysis carries sentiment_score
SentimentFromComm(outcome) ==
    IF outcome.raised THEN 5000
    ELSE IF outcome.data # <<>>
    THEN (IF outcome.data[1].has_score THEN outcome.data[1].sentiment_score ELSE 5000)
    ELSE 5000

\* the stored invoices of a customer
CustomerInvoiceRows ==
    { <<>>,
      \* one unpaid invoice, 12 days overdue
      << Inv(1, 0, T0 - 12, NoDate, NoDate, T0 - 30, FALSE, 1) >>,
      \* an overpaid invoice with a scheduled payment and two paid on the due date
      << Inv(1, 2, T0 - 10, T0 - 20, T0 + 5, T0 - 40, FALSE, 0),
         Inv(1, 1, T0 - 10, T0 - 10, NoDate, T0 - 20, FALSE, 0),
         Inv(1, 1, T0 - 10, T0 - 10, NoDate, T0 - 20, FALSE, 0) >>,
      \* two unpaid invoices and one partly paid late, 70 days overdue, disputed
      << Inv(1, 0, T0 - 12, NoDate, NoDate, T0 - 30, FALSE, 1),
         Inv(1, 0, T0 - 10, NoDate, NoDate, T0 - 50, FALSE, 1),
         Inv(3, 1, T0 - 70, T0 - 5, NoDate, T0 - 90, TRUE, 3) >> }

Customer(k, rows) ==
    [ id |-> k, customer_id |-> 1000 + k, customer_name |-> "customer",
      customer_invoice |-> rows ]

\* the querysets of up to MaxCustomers active customers
CustomerQuerysets ==
    UNION { { [k \in 1..n |-> Customer(k, f[k])] : f \in [1..n -> CustomerInvoiceRows] }
            : n \in 0..MaxCustomers }

\* invoice_list (lines 407-426)
InvoiceList(customer) ==
    [ i \in 1..Len(customer.customer_invoice) |->
        Identified(customer.customer_invoice[i], 10 * customer.id + i) ]

\* the body of `for customer in customers_queryset` (lines 407-444): the entry
\* appended to results
CustomerRecord(customer, outcome, tdy) ==
    LET invoice_list == InvoiceList(customer)
        sentiment_score_from_comm == SentimentFromComm(outcome)
        metrics == [ sentiment_score_from_comm |-> sentiment_score_from_comm ]
                   @@ calculate_client_metrics(customer, invoice_list, tdy)
        score_details_ == calculate_client_score(metrics, sentiment_score_from_comm,
                                                 invoice_list, tdy).ret
    IN  score_details_ @@ metrics

\* score * 0.7 + sentiment_score_from_comm * 0.3 (line 150) raises TypeError when
\* the sentiment is not a number; the insufficient-history exit returns before it
BlendRaises(metrics, sent) ==
    /\ sent = NotANumber
    /\ ~InsufficientHistory(
           (IF metrics.total_invoices # 0 THEN metrics.total_invoices ELSE 1)
             - metrics.upcoming_invoice_count)

\* the body of the customer loop raises (nothing in lines 406-445 catches it)
CustomerRaises(customer, outcome, tdy) ==
    BlendRaises(calculate_client_metrics(customer, InvoiceList(customer), tdy),
                SentimentFromComm(outcome))

\* variant: None for nothing to report
Response_none(entries) ==
    IF entries # <<>> THEN [ results |-> entries ] ELSE [ none |-> TRUE ]

\* variant: customers without invoices are left out of the response
Response_skipEmpty(entries) ==
    [ results |-> SelectSeq(entries, LAMBDA e : e.total_invoices > 0) ]

\* the return value (line 450)
Response(entries) ==
    IF entries # <<>> THEN [ results |-> entries ] ELSE [ results |-> <<>> ]

\* one iteration of the customer loop
ProcessCustomer ==
    /\ pc = "batch"
    /\ Len(results) < Len(customers_queryset)
    /\ \E outcome \in LookupOutcomes :
        LET customer == customers_queryset[Len(results) + 1]
        IN  /\ lookups' = Append(lookups, outcome)
            /\ summary_records' = StoredAfterLookup(summary_records, customer, outcome)
            /\ IF CustomerRaises(customer, outcome, today)
               THEN /\ pc' = "batch_raised"
                    /\ results' = results
               ELSE /\ pc' = pc
                    /\ results' = Append(results, CustomerRecord(customer, outcome, today))
    /\ UNCHANGED <<today, invoices, final_metrics, customers_queryset, response,
                   summary_before>>
    /\ UNCHANGED metricsVars
    /\ UNCHANGED scoreVars
    /\ UNCHANGED bucketVars
    /\ UNCHANGED orderVars
    /\ UNCHANGED percentVars
    /\ UNCHANGED rawVars

\* the loop is over: the call returns
BatchReturn ==
    /\ pc = "batch"
    /\ Len(results) = Len(customers_queryset)
    /\ response' = Response(results)
    /\ pc' = "returned"
    /\ UNCHANGED <<today, invoices, final_metrics, customers_queryset, lookups, results,
                   summary_before, summary_records>>
    /\ UNCHANGED metricsVars
    /\ UNCHANGED scoreVars
    /\ UNCHANGED bucketVars
    /\ UNCHANGED orderVars
    /\ UNCHANGED percentVars
    /\ UNCHANGED rawVars

InitBatch ==
    /\ InitCommon
    /\ pc = "batch"
    /\ days_arg = 0
    /\ customers_queryset \in CustomerQuerysets
    /\ summary_before \in SUBSET { customers_queryset[k].id : k \in DOMAIN customers_queryset }
    /\ summary_records = summary_before
    /\ pct_args = NoCounts
    /\ raw_invoices = <<>>

NextBatch == ProcessCustomer \/ BatchReturn

SpecBatch == InitBatch /\ [][NextBatch]_vars

\* ---- validate_billing_response (test_billing_analysis.py) ----------------
string_fields == {"customer_id", "customer_name", "risk_level", "analysis_summary"}

numeric_fields ==
    {"total_invoices", "total_invoice_amount", "total_received", "total_receivable",
     "total_overdue_amount", "overdue_invoice_count", "client_score", "sentiment_score"}

list_fields == {"key_factors", "recommendations", "invoices_details"}

required_buckets == {"Upcoming", "0-30 days", "31-60 days", "61-90 days", "90+ days"}

required_invoice_fields ==
    {"invoice_number", "invoice_generated_date", "invoice_due_date", "days_past_due",
     "client_name", "project_name", "milestone", "invoice_amount", "payment_status",
     "outstanding_amount", "currency"}

\* isinstance(x, list)
IsList(x) == DOMAIN x = 1..Len(x)

\* the validator reports no error for this customer entry
ValidCustomer(customer) ==
    /\ \A f \in string_fields : f \in DOMAIN customer /\ customer[f] \in STRING
    /\ \A f \in numeric_fields : f \in DOMAIN customer /\ customer[f] \in Int
    /\ \A f \in list_fields : f \in DOMAIN customer /\ IsList(customer[f])
    /\ "overdue_buckets" \in DOMAIN customer
    /\ \A b \in required_buckets :
        /\ b \in DOMAIN customer.overdue_buckets
        /\ {"count", "amount"} \subseteq DOMAIN customer.overdue_buckets[b]
    /\ \A i \in 1..Len(customer.invoices_details) :
        required_invoice_fields \subseteq DOMAIN customer.invoices_details[i]

\* validate_billing_response(response_data) = []
validate_billing_response(response_data) ==
    /\ "results" \in DOMAIN response_data
    /\ IsList(response_data.results)
    /\ \A idx \in 1..Len(response_data.results) :
        ValidCustomer(response_data.results[idx])

\* ---- properties ----------------------------------------------------------
MetricsDone == pc \in {"metrics", "scored", "rescored"}

Scored == pc \in {"scored", "rescored"}

\* the call did not take the insufficient-history exit
FullBranch ==
    final_metrics.total_invoices - final_metrics.upcoming_invoice_count > 1

InUnitInterval(x) == 0 <= x /\ x <= RatioUnit

\* C1: after calculate_client_metrics and calculate_client_score, for every
\* invoice list and every sentiment input in [0,1], client_score and
\* sentiment_score both lie in [0,1].
C1_ScoresInUnitInterval ==
    Scored => /\ InUnitInterval(score_details.client_score)
              /\ InUnitInterval(score_details.sentiment_score)

OverdueBucketAmount(buckets) ==
    buckets["0-30 days"].amount + buckets["31-60 days"].amount
    + buckets["61-90 days"].amount + buckets["90+ days"].amount

\* C2: in the returned metrics the amounts of the four buckets 0-30, 31-60,
\* 61-90 and 90+ days add up to total_overdue_amount.
C2_BucketAmountsSumToOverdue ==
    MetricsDone =>
        OverdueBucketAmount(final_metrics.overdue_buckets)
            = final_metrics.total_overdue_amount

C2_Witness ==
    /\ pc = "metrics"
    /\ final_metrics.overdue_buckets["0-30 days"].amount > 0
    /\ final_metrics.overdue_buckets["61-90 days"].amount > 0
    /\ final_metrics.upcoming_invoice_count > 0

\* C3 as stated: total_invoice_amount = total_received + total_receivable,
\* also when a payment exceeds its invoice.
C3_TotalsBalance ==
    MetricsDone =>
        final_metrics.total_invoice_amount
            = final_metrics.total_received + final_metrics.total_receivable

RECURSIVE OverpaidTotal(_)
OverpaidTotal(invs) ==
    IF invs = <<>> THEN 0
    ELSE (IF Head(invs).last_paid_amount > Head(invs).invoice_amount
          THEN Head(invs).last_paid_amount - Head(invs).invoice_amount ELSE 0)
         + OverpaidTotal(Tail(invs))

\* C3 amended: total_invoice_amount = total_received + total_receivable minus
\* the sum over the invoices of max(last_paid_amount - invoice_amount, 0); the
\* two sides of the original equation agree exactly when no invoice is overpaid.
C3_TotalsBalanceUpToOverpayment ==
    MetricsDone =>
        final_metrics.total_invoice_amount
            = final_metrics.total_received + final_metrics.total_receivable
              - OverpaidTotal(invoices)

C3_Witness ==
    /\ pc = "metrics"
    /\ OverpaidTotal(invoices) > 0
    /\ final_metrics.total_receivable > 0
    /\ final_metrics.partial_paid_late_count > 0

\* C4: every invoice's outstanding_amount in invoices_details is
\* max(invoice_amount - last_paid_amount, 0), never negative, and so
\* total_receivable is never negative.
C4_ReceivableClamped ==
    MetricsDone =>
        /\ Len(final_metrics.invoices_details) = Len(invoices)
        /\ \A i \in 1..Len(invoices) :
            LET due == invoices[i].invoice_amount - invoices[i].last_paid_amount
                out == final_metrics.invoices_details[i].outstanding_amount
            IN  /\ out = (IF due > 0 THEN due ELSE 0)
                /\ out >= 0
        /\ final_metrics.total_receivable >= 0

C4_Witness ==
    /\ pc = "metrics"
    /\ \E i \in 1..Len(invoices) :
        /\ invoices[i].last_paid_amount > invoices[i].invoice_amount
        /\ final_metrics.invoices_details[i].outstanding_amount = 0
    /\ \E i \in 1..Len(invoices) :
        final_metrics.invoices_details[i].outstanding_amount = 2

\* C5: two calls on identical invoices, sentiment and injected today return
\* identical results, whatever the clock shows at each call.
C5_SameInputSameOutput ==
    pc = "rescored" => score_again = score_details

\* C6: whenever total_invoices - upcoming_invoice_count <= 1 the score is the
\* fixed neutral result (0.5, Medium, one key factor, two recommendations),
\* whatever the metrics and the sentiment input hold.
C6_NeutralOnInsufficientHistory ==
    (Scored /\ ~FullBranch) =>
        /\ score_details.client_score = 5000
        /\ score_details.risk_level = "Medium"
        /\ Len(score_details.key_factors) = 1
        /\ Len(score_details.recommendations) = 2

C6_Witness ==
    /\ pc = "scored"
    /\ final_metrics.total_invoices = 1
    /\ final_metrics.upcoming_invoice_count = 0
    /\ final_metrics.overdue_buckets["61-90 days"].count = 1
    /\ final_metrics.total_overdue_amount = 2
    /\ sentiment = RatioUnit
    /\ score_details.client_score = 5000

\* C7: get_overdue_bucket returns exactly one of the four overdue labels:
\* "0-30 days" iff days <= 30, "31-60 days" iff 31 <= days <= 60,
\* "61-90 days" iff 61 <= days <= 90, "90+ days" iff days > 90.
C7_BucketBoundaries ==
    pc = "bucketed" =>
        /\ bucket_name \in OverdueLabels
        /\ (bucket_name = "0-30 days") <=> (days_arg <= 30)
        /\ (bucket_name = "31-60 days") <=> (31 <= days_arg /\ days_arg <= 60)
        /\ (bucket_name = "61-90 days") <=> (61 <= days_arg /\ days_arg <= 90)
        /\ (bucket_name = "90+ days") <=> (days_arg > 90)

C7_Witness ==
    /\ pc = "bucketed"
    /\ days_arg = 90
    /\ bucket_name = "61-90 days"

\* C8: outside the early exit the returned risk_level agrees with the returned
\* client_score: High iff < 0.5, Medium iff in [0.5, 0.7), Low iff >= 0.7.
C8_RiskAgreesWithReturnedScore ==
    (Scored /\ FullBranch) =>
        /\ (score_details.risk_level = "High") <=> (score_details.client_score < 5000)
        /\ (score_details.risk_level = "Medium")
               <=> (5000 <= score_details.client_score
                    /\ score_details.client_score < 7000)
        /\ (score_details.risk_level = "Low") <=> (score_details.client_score >= 7000)

\* C9: recurring_delay_ratio is exactly 1.0 iff paid_late_count +
\* partial_paid_late_count >= 3 and total_past_invoices >= 5, else exactly 0.0.
C9_RecurringDelayFlag ==
    pc = "metrics" =>
        LET late == final_metrics.paid_late_count + final_metrics.partial_paid_late_count
            past == final_metrics.total_invoices - final_metrics.upcoming_invoice_count
        IN  /\ final_metrics.total_past_invoices = past
            /\ final_metrics.recurring_delay_ratio \in {0, RatioUnit}
            /\ (final_metrics.recurring_delay_ratio = RatioUnit)
                   <=> (late >= 3 /\ past >= 5)

C9_Witness ==
    /\ pc = "metrics"
    /\ final_metrics.recurring_delay_ratio = RatioUnit
    /\ final_metrics.paid_late_count > 0
    /\ final_metrics.partial_paid_late_count > 0
    /\ final_metrics.paid_late_count + final_metrics.partial_paid_late_count = 3

\* The trend of the claim, stated on the invoice list itself.  Qualifying(clock)
\* are the positions of the invoices that give a pair; RankOf orders them by
\* invoice_date, equal dates in input order; the first floor(n/2) of that order
\* are the older half.
Qualifying(clock) ==
    { i \in 1..Len(invoices) :
        /\ invoices[i].due_date # NoDate
        /\ invoices[i].invoice_date # NoDate
        /\ invoices[i].due_date < clock
        /\ invoices[i].amount_overdue > 0 }

RankOf(i, Q) ==
    Cardinality({ j \in Q : \/ invoices[j].invoice_date < invoices[i].invoice_date
                            \/ /\ invoices[j].invoice_date = invoices[i].invoice_date
                               /\ j < i })

RECURSIVE DaysTotal(_, _)
DaysTotal(S, clock) ==
    IF S = {} THEN 0
    ELSE LET i == CHOOSE x \in S : TRUE
         IN  (clock - invoices[i].due_date) + DaysTotal(S \ {i}, clock)

\* -1, 0 or 1: mean(recent) > 1.1 * mean(older) with mean(older) > 0,
\* mean(recent) < 0.9 * mean(older), or neither
ClaimedTrend(clock) ==
    LET Q == Qualifying(clock)
        n == Cardinality(Q)
        Older == { i \in Q : RankOf(i, Q) < n \div 2 }
        Recent == Q \ Older
        so == DaysTotal(Older, clock)
        sr == DaysTotal(Recent, clock)
        lo == Cardinality(Older)
        lr == Cardinality(Recent)
    IN  IF n < 2 THEN 0
        ELSE IF 10 * sr * lo > 11 * so * lr /\ so > 0 THEN -1
        ELSE IF 10 * sr * lo < 9 * so * lr THEN 1
        ELSE 0

HasFactor(f) == \E k \in 1..Len(score_details.key_factors) : score_details.key_factors[k] = f

OrderFreeMetrics(m) ==
    [ total_invoices |-> m.total_invoices,
      total_invoice_amount |-> m.total_invoice_amount,
      total_received |-> m.total_received,
      total_receivable |-> m.total_receivable,
      total_overdue_amount |-> m.total_overdue_amount,
      overdue_invoice_count |-> m.overdue_invoice_count,
      paid_on_time_count |-> m.paid_on_time_count,
      paid_late_count |-> m.paid_late_count,
      partial_paid_on_time_count |-> m.partial_paid_on_time_count,
      partial_paid_late_count |-> m.partial_paid_late_count,
      upcoming_invoice_count |-> m.upcoming_invoice_count,
      disputed_invoice_count |-> m.disputed_invoice_count,
      overdue_buckets |-> m.overdue_buckets,
      on_time_payment_ratio |-> m.on_time_payment_ratio,
      late_payment_ratio |-> m.late_payment_ratio,
      recurring_delay_ratio |-> m.recurring_delay_ratio ]

\* totals, counts, buckets and ratios do not depend on the order of the list
MetricsOrderFree ==
    pc = "reordered" => OrderFreeMetrics(perm_metrics) = OrderFreeMetrics(final_metrics)

\* C11: handing the same invoices over in any other order, with the same today
\* and sentiment, gives the same totals, counts, buckets and ratios and the same
\* client_score, risk_level and key_factors, also when invoices share an
\* invoice_date
C11_OrderIrrelevant ==
    pc = "reordered" =>
        /\ OrderFreeMetrics(perm_metrics) = OrderFreeMetrics(final_metrics)
        /\ perm_score.client_score = score_details.client_score
        /\ perm_score.risk_level = score_details.risk_level
        /\ perm_score.key_factors = score_details.key_factors

\* the lookup gave no sentiment_score: it raised, returned no entry, or returned
\* an error payload
LookupFailed(outcome) ==
    outcome.raised \/ outcome.data = <<>> \/ ~outcome.data[1].has_score

\* C12: a customer whose sentiment lookup raises, returns nothing or returns an
\* error payload is scored with sentiment 0.5 and is in the results, and every
\* customer's entry is the one their own invoices and their own lookup give,
\* whatever happened to the lookups of the others
C12_LookupFailureIsolated ==
    pc = "returned" =>
        /\ Len(response.results) = Len(customers_queryset)
        /\ \A k \in 1..Len(customers_queryset) :
            /\ response.results[k].customer_id
                 = ToString(customers_queryset[k].customer_id)
            /\ LookupFailed(lookups[k]) =>
                 /\ response.results[k].sentiment_score_from_comm = 5000
                 /\ response.results[k]
                      = CustomerRecord(customers_queryset[k],
                                       Returned(<< Analysis(5000) >>), today)
            /\ ~LookupFailed(lookups[k]) =>
                 response.results[k]
                   = CustomerRecord(customers_queryset[k],
                                    Returned(<< Analysis(lookups[k].data[1].sentiment_score) >>),
                                    today)

\* a batch of two customers with enough history returned; the first one's lookup
\* gave an error payload and the second one's a score of 1.0
C12_Witness ==
    /\ pc = "returned"
    /\ Len(response.results) = 2
    /\ lookups[1] = Returned(<< ErrorPayload >>)
    /\ lookups[2] = Returned(<< Analysis(RatioUnit) >>)
    /\ response.results[1].total_past_invoices > 1
    /\ response.results[2].total_past_invoices > 1
    /\ response.results[1].sentiment_score_from_comm = 5000

\* C13: for a customer with no invoices the metrics are all zero (the invoice
\* count, the four totals, every bucket, the ratios, the percentiles and
\* avg_overdue_days) and the score is the neutral early-exit result
C13_EmptyInvoiceList ==
    (MetricsDone /\ invoices = <<>>) =>
        /\ final_metrics.total_invoices = 0
        /\ final_metrics.total_invoice_amount = 0
        /\ final_metrics.total_received = 0
        /\ final_metrics.total_receivable = 0
        /\ final_metrics.total_overdue_amount = 0
        /\ \A b \in BucketLabels :
            /\ final_metrics.overdue_buckets[b].count = 0
            /\ final_metrics.overdue_buckets[b].amount = 0
        /\ final_metrics.on_time_payment_ratio = 0
        /\ final_metrics.late_payment_ratio = 0
        /\ final_metrics.recurring_delay_ratio = 0
        /\ final_metrics.overdue_amount_percentile_25 = 0
        /\ final_metrics.overdue_amount_median = 0
        /\ final_metrics.overdue_amount_percentile_75 = 0
        /\ final_metrics.avg_overdue_days = 0
        /\ Scored => score_details = NeutralResult

\* a customer without invoices has been scored with sentiment input 1.0
C13_Witness ==
    /\ pc = "scored"
    /\ invoices = <<>>
    /\ final_metrics.total_invoices = 0
    /\ sentiment = RatioUnit
    /\ score_details.client_score = 5000

\* C14: every customer entry of a batch result passes the response-structure
\* validator, on the early-exit branch and on the full scoring branch: the four
\* text fields, the eight numeric fields, the three lists, the five buckets with
\* count and amount, and the eleven fields of every invoice detail are there
C14_RecordsPassValidator ==
    pc = "returned" => validate_billing_response(response)

\* a returned batch holds an early-exit entry without invoices and a fully
\* scored entry with three invoice details
C14_Witness ==
    /\ pc = "returned"
    /\ Len(response.results) = 2
    /\ response.results[1].total_invoices = 0
    /\ response.results[1].key_factors = << "Limited or no payment history available" >>
    /\ response.results[2].total_past_invoices > 1
    /\ Len(response.results[2].invoices_details) = 3

\* C15: the batch call over all active customers returns a mapping whose only
\* key is 'results', holding a list; for no customers the list is empty
C15_ResultsEnvelope ==
    pc = "returned" =>
        /\ DOMAIN response = {"results"}
        /\ IsList(response.results)
        /\ customers_queryset = <<>> => response.results = <<>>

\* the call has returned for an empty customer collection
C15_Witness ==
    /\ pc = "returned"
    /\ customers_queryset = <<>>
    /\ lookups = <<>>
    /\ response = [ results |-> <<>> ]

\* the positions of the invoice list that satisfy P
Positions(P(_)) == { i \in 1..Len(invoices) : P(invoices[i]) }

PaidInFull(inv) == inv.last_paid_amount >= inv.invoice_amount

PaidInPart(inv) == 0 < inv.last_paid_amount /\ inv.last_paid_amount < inv.invoice_amount

BothDatesKnown(inv) == inv.due_date # NoDate /\ inv.last_paid_date # NoDate

OnTime(inv) == inv.last_paid_date <= inv.due_date

FullOnTime(inv) == PaidInFull(inv) /\ BothDatesKnown(inv) /\ OnTime(inv)

FullLate(inv) == PaidInFull(inv) /\ BothDatesKnown(inv) /\ ~OnTime(inv)

PartOnTime(inv) == PaidInPart(inv) /\ BothDatesKnown(inv) /\ OnTime(inv)

PartLate(inv) == PaidInPart(inv) /\ BothDatesKnown(inv) /\ ~OnTime(inv)

Timed(inv) == (PaidInFull(inv) \/ PaidInPart(inv)) /\ BothDatesKnown(inv)

\* C16: every invoice counts in at most one of the four timing counters: a full
\* one iff last_paid_amount >= invoice_amount, a partial one iff
\* 0 < last_paid_amount < invoice_amount, in both cases only with due_date and
\* last_paid_date known, the on-time one iff last_paid_date <= due_date; an
\* invoice with a date missing counts in none
C16_TimingCounters ==
    MetricsDone =>
        /\ final_metrics.paid_on_time_count = Cardinality(Positions(FullOnTime))
        /\ final_metrics.paid_late_count = Cardinality(Positions(FullLate))
        /\ final_metrics.partial_paid_on_time_count = Cardinality(Positions(PartOnTime))
        /\ final_metrics.partial_paid_late_count = Cardinality(Positions(PartLate))
        /\ final_metrics.paid_on_time_count + final_metrics.paid_late_count
             + final_metrics.partial_paid_on_time_count
             + final_metrics.partial_paid_late_count
           = Cardinality(Positions(Timed))

\* one invoice partly paid on its due date, one paid in full late and one paid
\* in full without a payment date have been aggregated
C16_Witness ==
    /\ pc = "metrics"
    /\ Len(invoices) = 3
    /\ final_metrics.partial_paid_on_time_count = 1
    /\ final_metrics.paid_late_count = 1
    /\ \E i \in 1..3 : PaidInFull(invoices[i]) /\ invoices[i].last_paid_date = NoDate
    /\ final_metrics.paid_on_time_count = 0

OverdueInvoice(inv) ==
    inv.due_date # NoDate /\ inv.due_date < today
    /\ inv.invoice_amount - inv.last_paid_amount > 0

\* C17: an invoice is overdue iff its due_date is known, before today, and its
\* receivable is positive; overdue_invoice_count is the number of such invoices
\* and the sum of the four overdue buckets' counts, so an invoice due today or
\* paid in full counts in neither
C17_OverdueCount ==
    MetricsDone =>
        /\ final_metrics.overdue_invoice_count = Cardinality(Positions(OverdueInvoice))
        /\ final_metrics.overdue_invoice_count
           = final_metrics.overdue_buckets["0-30 days"].count
             + final_metrics.overdue_buckets["31-60 days"].count
             + final_metrics.overdue_buckets["61-90 days"].count
             + final_metrics.overdue_buckets["90+ days"].count

\* an unpaid invoice due today, one paid in full past its due date and one
\* unpaid due yesterday have been aggregated: one is overdue
C17_Witness ==
    /\ pc = "metrics"
    /\ Len(invoices) = 3
    /\ \E i \in 1..3 : invoices[i].due_date = today /\ invoices[i].last_paid_amount = 0
                       /\ invoices[i].invoice_amount > 0
    /\ \E i \in 1..3 : invoices[i].due_date # NoDate /\ invoices[i].due_date < today
                       /\ invoices[i].invoice_amount > 0
                       /\ invoices[i].last_paid_amount = invoices[i].invoice_amount
    /\ final_metrics.overdue_invoice_count = 1

UpcomingInvoice(inv) ==
    inv.upcoming_payment_date # NoDate /\ inv.upcoming_payment_date > today

\* C18: an invoice is upcoming iff its upcoming_payment_date is known and after
\* today, a date equal to today is not; upcoming_invoice_count is the number of
\* such invoices and next_upcoming_payment_date the earliest of their dates, or
\* none when there is none
C18_Upcoming ==
    MetricsDone =>
        /\ final_metrics.upcoming_invoice_count = Cardinality(Positions(UpcomingInvoice))
        /\ IF Positions(UpcomingInvoice) = {}
           THEN final_metrics.next_upcoming_payment_date = NoDate
           ELSE /\ \E i \in Positions(UpcomingInvoice) :
                     final_metrics.next_upcoming_payment_date
                       = invoices[i].upcoming_payment_date
                /\ \A i \in Positions(UpcomingInvoice) :
                     final_metrics.next_upcoming_payment_date
                       <= invoices[i].upcoming_payment_date

\* payments scheduled for today, in 7 days and in 3 days, handed over in that
\* order: two are upcoming and the earliest is the one in 3 days
C18_Witness ==
    /\ pc = "metrics"
    /\ Len(invoices) = 3
    /\ invoices[1].upcoming_payment_date = today
    /\ invoices[2].upcoming_payment_date = today + 7
    /\ invoices[3].upcoming_payment_date = today + 3
    /\ final_metrics.upcoming_invoice_count = 2
    /\ final_metrics.next_upcoming_payment_date = today + 3

\* the positions of the invoices the loop found overdue, in list order
OverduePositions == Positions(OverdueInvoice)

RECURSIVE SumOver(_, _)
SumOver(S, f) ==
    IF S = {} THEN 0
    ELSE LET i == CHOOSE j \in S : TRUE IN f[i] + SumOver(S \ {i}, f)

\* the weight of each invoice: the amount_overdue the caller supplied
Weight == [i \in 1..Len(invoices) |-> invoices[i].amount_overdue]

\* days overdue times weight
WeightedDays == [i \in 1..Len(invoices) |-> (today - invoices[i].due_date) * Weight[i]]

\* C19: avg_overdue_days is the weighted mean of the overdue invoices' days
\* overdue, the weights being the supplied amount_overdue values, the same in
\* numerator and denominator, rounded to 2 decimals; 0 when the weights sum to 0
C19_WeightedMean ==
    MetricsDone =>
        final_metrics.avg_overdue_days
          = IF SumOver(OverduePositions, Weight) = 0 THEN 0
            ELSE RoundDiv(100 * SumOver(OverduePositions, WeightedDays),
                          SumOver(OverduePositions, Weight))

\* C20: each of the four score components lies in [0, 1], and so does their
\* weighted sum before trend and bonus, also for invoices that are both paid
\* and counted as upcoming
C20_ComponentsInUnitInterval ==
    (Scored /\ ~score_locals.early_exit) =>
        LET one == score_locals.one
        IN  /\ 0 <= score_locals.overdue_score /\ 100 * score_locals.overdue_score <= one
            /\ 0 <= score_locals.on_time_ratio_score
            /\ 100 * score_locals.on_time_ratio_score <= one
            /\ 0 <= score_locals.aging_score /\ 100 * score_locals.aging_score <= one
            /\ 0 <= score_locals.behavioral_score
            /\ 100 * score_locals.behavioral_score <= one
            /\ 0 <= score_locals.base_score /\ score_locals.base_score <= one

\* C21: overdue_percentage equals overdue_percentage_count, which is
\* 100 * overdue_invoice_count / total_invoices rounded to 2 decimals and 0 for an
\* empty list; the amount-based percentage has no part in it
C21_BlendEqualsCountPercentage ==
    pc = "percentages" =>
        /\ pct_result.overdue_percentage = pct_result.overdue_percentage_count
        /\ pct_args.invoice_count = 0 => pct_result.overdue_percentage = 0

\* the factor labels in the order their triggers are tested
FactorOrder ==
    << "High overdue amount ratio", "Low on-time payment ratio",
       "Worsening payment trend", "Improving payment trend",
       "Has invoices overdue by more than 60 days.",
       "High number of invoice disputes", "Recurring payment delays detected." >>

\* the trigger of a factor fires on the scored metrics
Fired(label) ==
    LET total == IF final_metrics.total_invoice_amount # 0
                 THEN final_metrics.total_invoice_amount ELSE 1
    IN  CASE label = "High overdue amount ratio" ->
               10 * final_metrics.total_overdue_amount > 3 * total
          [] label = "Low on-time payment ratio" ->
               final_metrics.on_time_payment_ratio < 6000
          [] label = "Worsening payment trend" -> score_locals.trend_adjustment < 0
          [] label = "Improving payment trend" -> score_locals.trend_adjustment > 0
          [] label = "Has invoices overdue by more than 60 days." ->
               final_metrics.overdue_buckets["61-90 days"].amount
                 + final_metrics.overdue_buckets["90+ days"].amount > 0
          [] label = "High number of invoice disputes" ->
               final_metrics.disputed_invoice_count > 0
          [] label = "Recurring payment delays detected." ->
               final_metrics.recurring_delay_ratio > 2000

FiredFactors == SelectSeq(FactorOrder, Fired)

\* C22: on the full branch key_factors holds between 1 and 5 entries: the first
\* five fired factors in trigger order, and the single positive factor exactly
\* when no trigger fires; recommendations holds at most 4 entries
C22_KeyFactors ==
    (Scored /\ ~score_locals.early_exit) =>
        /\ Len(score_details.key_factors) >= 1
        /\ Len(score_details.key_factors) <= 5
        /\ IF FiredFactors = <<>>
           THEN score_details.key_factors = << "Excellent payment behavior" >>
           ELSE score_details.key_factors
                  = SubSeq(FiredFactors, 1,
                           IF Len(FiredFactors) < 5 THEN Len(FiredFactors) ELSE 5)
        /\ (score_details.key_factors = << "Excellent payment behavior" >>
              <=> FiredFactors = <<>>)
        /\ Len(score_details.recommendations) <= 4

\* all six triggers fire on a scored history and five factors are reported
C22_Witness ==
    /\ pc = "scored"
    /\ ~score_locals.early_exit
    /\ Len(FiredFactors) = 6
    /\ Len(score_details.key_factors) = 5
    /\ score_details.key_factors[5] = "High number of invoice disputes"

\* C23: on the full branch sentiment_score is 0.7 * base_score + 0.3 * the
\* sentiment input (rounded to 4 decimals), base_score being the weighted sum of
\* the four components without trend adjustment and bonus; a second call that
\* differs only in the trend adjustment reports the same sentiment_score
C23_SentimentBlend ==
    (Scored /\ ~score_locals.early_exit) =>
        LET T == IF final_metrics.total_invoice_amount # 0
                 THEN final_metrics.total_invoice_amount ELSE 1
            base == 40 * score_locals.overdue_score
                    + 25 * score_locals.on_time_ratio_score
                    + 20 * score_locals.aging_score
                    + 15 * score_locals.behavioral_score
        IN  /\ score_details.sentiment_score
                 = RoundDiv(7 * base + 3 * sentiment * 100 * T, 1000 * T)
            /\ pc = "rescored" =>
                 score_again.sentiment_score = score_details.sentiment_score

\* two calls on the same metrics whose trend adjustments differ: client_score
\* differs, and the sentiment input weighs in with a non-zero value
C23_Witness ==
    /\ pc = "rescored"
    /\ ~score_locals.early_exit
    /\ score_locals.trend_adjustment # 0
    /\ score_again.client_score # score_details.client_score
    /\ sentiment = RatioUnit
    /\ score_details.sentiment_score # score_details.client_score

\* a supplied invoice with every field that cannot be parsed replaced by
\* amount 0 or no date
Degraded(raw) ==
    [ raw EXCEPT !.invoice_amount = ToFloat(raw.invoice_amount).value,
                 !.last_paid_amount = ToFloat(raw.last_paid_amount).value,
                 !.due_date = IF IsDate(raw.due_date) THEN raw.due_date.date ELSE NoDate,
                 !.last_paid_date =
                     IF IsDate(raw.last_paid_date) THEN raw.last_paid_date.date ELSE NoDate,
                 !.upcoming_payment_date =
                     IF IsDate(raw.upcoming_payment_date)
                     THEN raw.upcoming_payment_date.date ELSE NoDate,
                 !.invoice_date =
                     IF IsDate(raw.invoice_date) THEN raw.invoice_date.date ELSE NoDate ]

\* C24: calculate_client_metrics returns on every list of supplied invoices,
\* and what it returns is the metrics of the list with each unparsable amount
\* taken as 0 and each unparsable date as unknown
C24_MalformedValuesDegrade ==
    pc # "raw" =>
        /\ pc = "raw_returned"
        /\ raw_result = calculate_client_metrics(
               TheCustomer,
               [ i \in 1..Len(raw_invoices) |-> Degraded(raw_invoices[i]) ], today)

\* C25: an exception raised while one customer's metrics or score are computed
\* does not leave the customer loop: every customer looked up so far has an
\* entry in results and the batch goes on to return
C25_ExceptionIsolated ==
    /\ pc # "batch_raised"
    /\ pc \in {"batch", "returned"} => Len(results) = Len(lookups)

\* C26: the per-customer sentiment lookups leave the stored sentiment-summary
\* records as they were before the batch
C26_LookupHasNoSideEffect ==
    pc \in {"batch", "batch_raised", "returned"} => summary_records = summary_before

NoEntries == [ count |-> 0, amount |-> 0 ]

\* C27: the 'Upcoming' bucket stays at count 0 and amount 0, during the loop and
\* in the returned metrics, however many invoices are upcoming; an upcoming
\* invoice counts in upcoming_invoice_count only, and an overdue invoice, upcoming
\* or not, counts in one of the four aging buckets
C27_UpcomingBucketEmpty ==
    /\ overdue_buckets["Upcoming"] = NoEntries
    /\ MetricsDone =>
        /\ final_metrics.overdue_buckets["Upcoming"] = NoEntries
        /\ final_metrics.upcoming_invoice_count = Cardinality(Positions(UpcomingInvoice))
        /\ Cardinality(Positions(OverdueInvoice))
             = SumOver(OverdueLabels,
                       [ b \in OverdueLabels |-> final_metrics.overdue_buckets[b].count ])
        /\ \A i \in Positions(OverdueInvoice) :
             final_metrics.overdue_buckets[get_overdue_bucket(today - invoices[i].due_date)].count > 0

\* metrics of a list with an invoice that is overdue and upcoming at once and
\* another upcoming invoice that is not overdue
C27_Witness ==
    /\ pc = "metrics"
    /\ final_metrics.upcoming_invoice_count >= 2
    /\ \E i \in 1..Len(invoices) : OverdueInvoice(invoices[i]) /\ UpcomingInvoice(invoices[i])
    /\ \E i \in 1..Len(invoices) : ~OverdueInvoice(invoices[i]) /\ UpcomingInvoice(invoices[i])
    /\ final_metrics.overdue_buckets["Upcoming"] = NoEntries

\* the days overdue of the overdue invoices
OverdueDays == { today - invoices[i].due_date : i \in OverduePositions }

\* C28: with an overdue invoice avg_overdue_days lies between the smallest days
\* overdue and max_overdue_days, which is the largest, whatever the amounts;
\* with none both are 0
C28_AverageWithinRange ==
    MetricsDone =>
        IF OverduePositions # {}
        THEN /\ \A d \in OverdueDays : d <= final_metrics.max_overdue_days
             /\ final_metrics.max_overdue_days \in OverdueDays
             /\ \E d \in OverdueDays : 100 * d <= final_metrics.avg_overdue_days
             /\ final_metrics.avg_overdue_days <= 100 * final_metrics.max_overdue_days
        ELSE /\ final_metrics.avg_overdue_days = 0
             /\ final_metrics.max_overdue_days = 0

\* an invoice with a payment on a known date
RecordedPayment(inv) == inv.last_paid_amount > 0 /\ inv.last_paid_date # NoDate

\* C29: last_payment_date is the latest last_paid_date of the invoices with a
\* recorded payment, paid in full or in part, due date known or not, and none
\* exactly when no invoice has a recorded payment
C29_LastPaymentDate ==
    MetricsDone =>
        IF Positions(RecordedPayment) = {}
        THEN final_metrics.last_payment_date = NoDate
        ELSE /\ \E i \in Positions(RecordedPayment) :
                  final_metrics.last_payment_date = invoices[i].last_paid_date
             /\ \A i \in Positions(RecordedPayment) :
                  final_metrics.last_payment_date >= invoices[i].last_paid_date

\* the record of the customer at position k of the collection
OwnRecord(k) == CustomerRecord(customers_queryset[k], lookups[k], today)

\* C30: while the customer loop runs results holds one record for each customer
\* iterated so far, in iteration order, and after a normal return the response
\* holds one record for each customer of the collection: record k carries
\* customer k's customer_id, the metrics of customer k's invoices and the score
\* of those metrics, whatever the sentiment lookups did
C30_OneRecordPerCustomer ==
    /\ pc = "batch" =>
        /\ Len(results) = Len(lookups)
        /\ Len(results) <= Len(customers_queryset)
        /\ \A k \in 1..Len(results) : results[k] = OwnRecord(k)
    /\ pc = "returned" =>
        /\ Len(response.results) = Len(customers_queryset)
        /\ \A k \in 1..Len(customers_queryset) :
            LET record == response.results[k]
                customer == customers_queryset[k]
            IN  /\ record.customer_id = ToString(customer.customer_id)
                /\ record.total_invoices = Len(customer.customer_invoice)
                /\ Len(record.invoices_details) = Len(customer.customer_invoice)
                /\ \A i \in 1..Len(record.invoices_details) :
                     record.invoices_details[i].invoice_number = 10 * customer.id + i
                /\ record = OwnRecord(k)
        /\ \A j, k \in 1..Len(response.results) :
             j # k => response.results[j].customer_id # response.results[k].customer_id

\* a batch of two customers returned: the first has no invoices and a lookup
\* that raised, the second has three invoices and a lookup that gave a score
C30_Witness ==
    /\ pc = "returned"
    /\ Len(customers_queryset) = 2
    /\ customers_queryset[1].customer_invoice = <<>>
    /\ Len(customers_queryset[2].customer_invoice) = 3
    /\ lookups[1] = Raised
    /\ lookups[2] = Returned(<< Analysis(0) >>)
    /\ Len(response.results) = 2
    /\ response.results[1].customer_id = "1001"
    /\ response.results[2].customer_id = "1002"

====
